---- MODULE Spec2Model ----
(***************************************************************************)
(* Decision engine of the DevOps intelligence platform                     *)
(* (kestra/scripts/decision_engine.py): the per-recommendation evaluator   *)
(* (_make_decision and its four gates) and the batch arbiter               *)
(* (_apply_business_rules) with its rolling history.                       *)
(*                                                                         *)
(* Confidence scores are hundredths (0.85 is 85).  Time is in minutes      *)
(* since local midnight of the first day; datetime.now() is a reading of   *)
(* the variable now, which only moves forward.                             *)
(***************************************************************************)
EXTENDS Integers, Sequences, FiniteSets

VARIABLES
    confidence_threshold,           \* DecisionEngine.confidence_threshold
    max_auto_deployments_per_hour,  \* DecisionEngine.max_auto_deployments_per_hour
    business_hours_only,            \* DecisionEngine.business_hours_only
    critical_services,              \* DecisionEngine.critical_services
    recent_decisions,               \* DecisionEngine.recent_decisions
    now,                            \* the wall clock read by datetime.now()
    issues_data,                    \* analysis['issues'] of the latest call
    recommendations_data,           \* analysis['recommendations'] of the latest call
    checks,                         \* per recommendation, the gate results of _make_decision
    provisional,                    \* the decisions as _make_decision returned them
    filtered_decisions,             \* the list the latest call returned
    history_before,                 \* recent_decisions when the latest call started
    cutoff_time,                    \* cutoff_time of the latest _apply_business_rules
    submitted,                      \* recommendations received so far, over all calls
    ai_response,                    \* what json.loads made of the latest call's argument
    summaries,                      \* what get_decision_summary returned for the latest list
    calls,                          \* per thread, the locals of a call running step by step
    phase                           \* "idle" | "input" | "evaluated" | "returned" | "failed"

vars == <<confidence_threshold, max_auto_deployments_per_hour, business_hours_only,
          critical_services, recent_decisions, now, issues_data, recommendations_data,
          checks, provisional, filtered_decisions, history_before, cutoff_time, submitted,
          ai_response, summaries, calls, phase>>

config == <<confidence_threshold, max_auto_deployments_per_hour, business_hours_only,
            critical_services>>

(***************************************************************************)
(* Enumerations and constants of the program.                              *)
(***************************************************************************)
Severity == {"low", "medium", "high", "critical"}

ActionType == {"code_fix", "scale_up", "scale_down", "restart_service", "rollback",
               "configuration_change", "manual_review"}

DecisionOutcome == {"auto_resolve", "schedule_maintenance", "escalate_human", "monitor_only"}

Hour == 60                      \* timedelta(hours=1), in minutes
EscalationHours == 2            \* timedelta(hours=2) of an escalation decision
CriticalConfidence == 95        \* 0.95
HighConfidence == 85            \* 0.85
CriticalServiceConfidence == 90 \* 0.9
RiskyActionConfidence == 90     \* 0.9
ScheduleConfidence == 60        \* 0.6
BusinessOpen == 9
BusinessClose == 17
HoursPerDay == 24

NoValue == 0 - 1                \* a field the code leaves out of a string or never sets

HourOf(t) == (t \div Hour) % HoursPerDay   \* datetime.hour

(***************************************************************************)
(* Bounds of the model.                                                    *)
(***************************************************************************)
MaxCap == 1               \* max_auto_deployments_per_hour ranges over 0..MaxCap
MaxRecommendations == 3   \* recommendations one engine receives, over all its calls
MaxSummaries == 2         \* get_decision_summary calls on one returned list
StartTime == 9 * Hour - 1   \* 08:59 local time, when the engine is constructed

\* the readings of the clock: construction time, a minute later, and the same
\* an hour later
ClockValues == {StartTime, StartTime + 1, StartTime + Hour, StartTime + Hour + 1}

(***************************************************************************)
(* Parsing of the payload (process_ai_analysis, lines 123-125).  A payload *)
(* record carries the fields the decision logic reads; Severity(...) and   *)
(* ActionType(...) raise ValueError on a string outside the enumeration.   *)
(***************************************************************************)
\* the strings datetime.fromisoformat accepts, as far as payloads use them
IsoTimestamps == {"2024-01-15T10:30:00"}

\* a confidence_score that is no number (a JSON string or null)
NotANumber == 0 - 2

\* unknown severities pass
ParseFailsLenientSeverity(issues, recommendations) ==
    \/ \E k \in DOMAIN issues :
          /\ "timestamp" \in DOMAIN issues[k]
          /\ issues[k].timestamp \notin IsoTimestamps
    \/ \E k \in DOMAIN recommendations : recommendations[k].action_type \notin ActionType

\* Severity(...) (line 152), datetime.fromisoformat(...) on a timestamp that is
\* present (line 154) or ActionType(...) (line 168) raises
ParseFails(issues, recommendations) ==
    \/ \E k \in DOMAIN issues : issues[k].severity \notin Severity
    \/ \E k \in DOMAIN issues :
          /\ "timestamp" \in DOMAIN issues[k]
          /\ issues[k].timestamp \notin IsoTimestamps
    \/ \E k \in DOMAIN recommendations : recommendations[k].action_type \notin ActionType

\* _make_decision raises TypeError at its first comparison (line 196) when the
\* issue exists and the confidence is no number; a missing issue is escalated at
\* line 193 before any comparison
EvaluationFails(issues, recommendations) ==
    \E k \in DOMAIN recommendations :
        /\ recommendations[k].confidence_score = NotANumber
        /\ \E j \in DOMAIN issues : issues[j].id = recommendations[k].issue_id

\* issues[issue.id] = issue for each record in turn: the last record of an id wins
_parse_issues(data) ==
    LET ids == {data[k].id : k \in DOMAIN data}
        last(id) == CHOOSE k \in DOMAIN data :
                        /\ data[k].id = id
                        /\ \A j \in DOMAIN data : data[j].id = id => j <= k
    IN  [id \in ids |-> [id |-> id,
                         severity |-> data[last(id)].severity,
                         affected_services |-> data[last(id)].affected_services]]

_parse_recommendations(data) ==
    [k \in DOMAIN data |->
        [issue_id |-> data[k].issue_id,
         action_type |-> data[k].action_type,
         confidence_score |-> data[k].confidence_score,
         time_estimate |-> data[k].time_estimate,
         prerequisites |-> data[k].prerequisites]]

(***************************************************************************)
(* The four gates of the evaluator.                                        *)
(***************************************************************************)
\* <= instead of >= for high severity: more confidence fails the gate
_evaluate_severity_risk_inverted(issue, recommendation) ==
    IF issue.severity = "critical"
    THEN recommendation.confidence_score >= CriticalConfidence
    ELSE IF issue.severity = "high"
         THEN recommendation.confidence_score <= HighConfidence
         ELSE TRUE

\* > instead of >= for high severity
_evaluate_severity_risk_strict(issue, recommendation) ==
    IF issue.severity = "critical"
    THEN recommendation.confidence_score >= CriticalConfidence
    ELSE IF issue.severity = "high"
         THEN recommendation.confidence_score > HighConfidence
         ELSE TRUE

_evaluate_severity_risk(issue, recommendation) ==
    IF issue.severity = "critical"
    THEN recommendation.confidence_score >= CriticalConfidence
    ELSE IF issue.severity = "high"
         THEN recommendation.confidence_score >= HighConfidence
         ELSE TRUE

\* restart_service counted among the actions safe on a critical service
_evaluate_business_impact_restart_safe(issue, recommendation, t) ==
    LET critical_services_affected ==
            \E service \in issue.affected_services : service \in critical_services
        safe_actions == {"scale_up", "configuration_change", "restart_service"}
        current_hour == HourOf(t)
        is_business_hours == BusinessOpen <= current_hour /\ current_hour <= BusinessClose
    IN  IF critical_services_affected
        THEN /\ recommendation.action_type \in safe_actions
             /\ recommendation.confidence_score >= CriticalServiceConfidence
        ELSE IF /\ business_hours_only
                /\ ~is_business_hours
                /\ issue.severity \in {"high", "critical"}
             THEN FALSE
             ELSE TRUE

\* business hours end before 17:00: current_hour < 17
_evaluate_business_impact_closes_early(issue, recommendation, t) ==
    LET critical_services_affected ==
            \E service \in issue.affected_services : service \in critical_services
        safe_actions == {"scale_up", "configuration_change"}
        current_hour == HourOf(t)
        is_business_hours == BusinessOpen <= current_hour /\ current_hour < BusinessClose
    IN  IF critical_services_affected
        THEN /\ recommendation.action_type \in safe_actions
             /\ recommendation.confidence_score >= CriticalServiceConfidence
        ELSE IF /\ business_hours_only
                /\ ~is_business_hours
                /\ issue.severity \in {"high", "critical"}
             THEN FALSE
             ELSE TRUE

\* t is what datetime.now() returns if the business-hours branch reads it
_evaluate_business_impact(issue, recommendation, t) ==
    LET critical_services_affected ==
            \E service \in issue.affected_services : service \in critical_services
        safe_actions == {"scale_up", "configuration_change"}
        current_hour == HourOf(t)
        is_business_hours == BusinessOpen <= current_hour /\ current_hour <= BusinessClose
    IN  IF critical_services_affected
        THEN /\ recommendation.action_type \in safe_actions
             /\ recommendation.confidence_score >= CriticalServiceConfidence
        ELSE IF /\ business_hours_only
                /\ ~is_business_hours
                /\ issue.severity \in {"high", "critical"}
             THEN FALSE
             ELSE TRUE

\* restart_service left out of the safe actions
_evaluate_technical_feasibility_restart_unsafe(recommendation) ==
    LET safe_actions == {"scale_up", "configuration_change"}
        risky_actions == {"rollback", "code_fix"}
    IN  IF recommendation.action_type \in risky_actions
        THEN recommendation.confidence_score >= RiskyActionConfidence
        ELSE recommendation.action_type \in safe_actions

\* a recommendation with prerequisites fails the gate
_evaluate_technical_feasibility_needs_prerequisites(recommendation) ==
    LET safe_actions == {"scale_up", "configuration_change", "restart_service"}
        risky_actions == {"rollback", "code_fix"}
    IN  IF recommendation.prerequisites # <<>>
        THEN FALSE
        ELSE IF recommendation.action_type \in risky_actions
             THEN recommendation.confidence_score >= RiskyActionConfidence
             ELSE recommendation.action_type \in safe_actions

_evaluate_technical_feasibility(recommendation) ==
    LET safe_actions == {"scale_up", "configuration_change", "restart_service"}
        risky_actions == {"rollback", "code_fix"}
    IN  IF recommendation.action_type \in risky_actions
        THEN recommendation.confidence_score >= RiskyActionConfidence
        ELSE recommendation.action_type \in safe_actions

\* the locals confidence_check .. technical_check of _make_decision, and the
\* hour the business-impact gate read (NoValue when it read none)
GateChecks(recommendation, issues, t) ==
    IF recommendation.issue_id \notin DOMAIN issues
    THEN [found |-> FALSE, confidence_check |-> FALSE, severity_check |-> FALSE,
          business_impact_check |-> FALSE, technical_check |-> FALSE,
          current_hour |-> NoValue]
    ELSE LET issue == issues[recommendation.issue_id]
         IN  [found |-> TRUE,
              confidence_check |-> recommendation.confidence_score >= confidence_threshold,
              severity_check |-> _evaluate_severity_risk(issue, recommendation),
              business_impact_check |-> _evaluate_business_impact(issue, recommendation, t),
              technical_check |-> _evaluate_technical_feasibility(recommendation),
              current_hour |->
                  IF /\ business_hours_only
                     /\ \A service \in issue.affected_services :
                            service \notin critical_services
                  THEN HourOf(t) ELSE NoValue]

\* confidence copied from the recommendation instead of 0.0
_create_escalation_decision_keeps_confidence(recommendation, reason, t_id, t_ts, t_ec) ==
    [id |-> [prefix |-> "escalation", stamp |-> t_id, issue_id |-> ""],
     issue_id |-> recommendation.issue_id,
     recommendation |-> recommendation,
     outcome |-> "escalate_human",
     confidence |-> recommendation.confidence_score,
     reasoning |-> [text |-> reason, confidence |-> NoValue, severity |-> "",
                    rate_limited |-> FALSE],
     timestamp |-> t_ts,
     auto_approved |-> FALSE,
     estimated_completion |-> t_ec + EscalationHours * Hour]

\* t_id, t_ts, t_ec: the three readings of datetime.now() in Decision(...)
_create_escalation_decision(recommendation, reason, t_id, t_ts, t_ec) ==
    [id |-> [prefix |-> "escalation", stamp |-> t_id, issue_id |-> ""],
     issue_id |-> recommendation.issue_id,
     recommendation |-> recommendation,
     outcome |-> "escalate_human",
     confidence |-> 0,
     reasoning |-> [text |-> reason, confidence |-> NoValue, severity |-> "",
                    rate_limited |-> FALSE],
     timestamp |-> t_ts,
     auto_approved |-> FALSE,
     estimated_completion |-> t_ec + EscalationHours * Hour]

\* the elif without "and issue.severity != Severity.CRITICAL"
DispositionIgnoresSeverity(passed, recommendation, issue) ==
    IF passed
    THEN [outcome |-> "auto_resolve",
          auto_approved |-> TRUE,
          reasoning |-> [text |-> "All checks passed",
                         confidence |-> recommendation.confidence_score,
                         severity |-> issue.severity, rate_limited |-> FALSE]]
    ELSE IF recommendation.confidence_score >= ScheduleConfidence
         THEN [outcome |-> "schedule_maintenance",
               auto_approved |-> FALSE,
               reasoning |-> [text |-> "Medium confidence, scheduling for maintenance window",
                              confidence |-> NoValue, severity |-> "",
                              rate_limited |-> FALSE]]
         ELSE [outcome |-> "escalate_human",
               auto_approved |-> FALSE,
               reasoning |-> [text |-> "Failed checks",
                              confidence |-> recommendation.confidence_score,
                              severity |-> issue.severity, rate_limited |-> FALSE]]

\* the if/elif/else of lines 208-219: passed is all([...]) of the four checks;
\* each branch sets outcome, auto_approved and reasoning
Disposition(passed, recommendation, issue) ==
    IF passed
    THEN [outcome |-> "auto_resolve",
          auto_approved |-> TRUE,
          reasoning |-> [text |-> "All checks passed",
                         confidence |-> recommendation.confidence_score,
                         severity |-> issue.severity, rate_limited |-> FALSE]]
    ELSE IF /\ recommendation.confidence_score >= ScheduleConfidence
            /\ issue.severity # "critical"
         THEN [outcome |-> "schedule_maintenance",
               auto_approved |-> FALSE,
               reasoning |-> [text |-> "Medium confidence, scheduling for maintenance window",
                              confidence |-> NoValue, severity |-> "",
                              rate_limited |-> FALSE]]
         ELSE [outcome |-> "escalate_human",
               auto_approved |-> FALSE,
               reasoning |-> [text |-> "Failed checks",
                              confidence |-> recommendation.confidence_score,
                              severity |-> issue.severity, rate_limited |-> FALSE]]

\* every escalation built by the helper of the missing-issue path, which sets
\* the confidence to 0.0
_make_decision_escalates_by_helper(recommendation, issues, t_hour, t_id, t_ts, t_ec) ==
    IF recommendation.issue_id \notin DOMAIN issues
    THEN _create_escalation_decision(recommendation, "Issue not found", t_id, t_ts, t_ec)
    ELSE
    LET issue == issues[recommendation.issue_id]
        c == GateChecks(recommendation, issues, t_hour)
        all == /\ c.confidence_check
               /\ c.severity_check
               /\ c.business_impact_check
               /\ c.technical_check
        made == Disposition(all, recommendation, issue)
    IN  IF made.outcome = "escalate_human"
        THEN [_create_escalation_decision(recommendation, "Failed checks",
                                          t_id, t_ts, t_ec)
                EXCEPT !.reasoning = made.reasoning]
        ELSE [id |-> [prefix |-> "decision", stamp |-> t_id,
                      issue_id |-> recommendation.issue_id],
              issue_id |-> recommendation.issue_id,
              recommendation |-> recommendation,
              outcome |-> made.outcome,
              confidence |-> recommendation.confidence_score,
              reasoning |-> made.reasoning,
              timestamp |-> t_ts,
              auto_approved |-> made.auto_approved,
              estimated_completion |-> t_ec + recommendation.time_estimate]

\* t_hour: the reading in _evaluate_business_impact; t_id, t_ts, t_ec: the three
\* readings in Decision(...)
_make_decision(recommendation, issues, t_hour, t_id, t_ts, t_ec) ==
    IF recommendation.issue_id \notin DOMAIN issues
    THEN _create_escalation_decision(recommendation, "Issue not found", t_id, t_ts, t_ec)
    ELSE
    LET issue == issues[recommendation.issue_id]
        c == GateChecks(recommendation, issues, t_hour)
        all == /\ c.confidence_check
               /\ c.severity_check
               /\ c.business_impact_check
               /\ c.technical_check
        made == Disposition(all, recommendation, issue)
    IN  [id |-> [prefix |-> "decision", stamp |-> t_id,
                 issue_id |-> recommendation.issue_id],
         issue_id |-> recommendation.issue_id,
         recommendation |-> recommendation,
         outcome |-> made.outcome,
         confidence |-> recommendation.confidence_score,
         reasoning |-> made.reasoning,
         timestamp |-> t_ts,
         auto_approved |-> made.auto_approved,
         estimated_completion |-> t_ec + recommendation.time_estimate]

(***************************************************************************)
(* The batch arbiter.                                                      *)
(***************************************************************************)
\* a window of two hours instead of one
IsRecentTwoHours(d, cutoff) == d.timestamp > cutoff - Hour

\* d.timestamp > cutoff_time (line 336)
IsRecent(d, cutoff) == d.timestamp > cutoff

\* d.auto_approved and d.outcome == DecisionOutcome.AUTO_RESOLVE (lines 342, 350)
IsAutoApproval(d) == d.auto_approved /\ d.outcome = "auto_resolve"

\* > instead of >=
RateLimitReachedOffByOne(recent_auto_approvals, auto_approvals_added) ==
    recent_auto_approvals + auto_approvals_added > max_auto_deployments_per_hour

\* the test of line 353
RateLimitReached(recent_auto_approvals, auto_approvals_added) ==
    recent_auto_approvals + auto_approvals_added >= max_auto_deployments_per_hour

\* the downgrade leaving auto_approved set
DowngradeKeepsApproval(decision) ==
    [decision EXCEPT !.outcome = "schedule_maintenance",
                     !.reasoning.rate_limited = TRUE]

\* the downgrade also dropping the confidence, as an escalation does
DowngradeResetsConfidence(decision) ==
    [decision EXCEPT !.outcome = "schedule_maintenance",
                     !.auto_approved = FALSE,
                     !.confidence = 0,
                     !.reasoning.rate_limited = TRUE]

\* lines 355-357
Downgrade(decision) ==
    [decision EXCEPT !.outcome = "schedule_maintenance",
                     !.auto_approved = FALSE,
                     !.reasoning.rate_limited = TRUE]

\* no pruning at all
PruneHistoryKeepsAll(history, cutoff) == history

PruneHistory(history, cutoff) == SelectSeq(history, LAMBDA d : IsRecent(d, cutoff))

CountAutoApprovals(history) ==
    Cardinality({k \in DOMAIN history : IsAutoApproval(history[k])})

\* the loop without auto_approvals_added += 1
RECURSIVE RateLimitWalkNoCount(_, _, _)
RateLimitWalkNoCount(decisions, recent_auto_approvals, auto_approvals_added) ==
    IF decisions = <<>>
    THEN <<>>
    ELSE LET decision == Head(decisions)
         IN  IF /\ IsAutoApproval(decision)
                /\ RateLimitReached(recent_auto_approvals, auto_approvals_added)
             THEN <<Downgrade(decision)>> \o
                  RateLimitWalkNoCount(Tail(decisions), recent_auto_approvals,
                                       auto_approvals_added)
             ELSE <<decision>> \o
                  RateLimitWalkNoCount(Tail(decisions), recent_auto_approvals,
                                       auto_approvals_added)

\* the loop leaving a rate-limited decision out of the returned list
RECURSIVE RateLimitWalkDropsLimited(_, _, _)
RateLimitWalkDropsLimited(decisions, recent_auto_approvals, auto_approvals_added) ==
    IF decisions = <<>>
    THEN <<>>
    ELSE LET decision == Head(decisions)
         IN  IF IsAutoApproval(decision)
             THEN IF RateLimitReached(recent_auto_approvals, auto_approvals_added)
                  THEN RateLimitWalkDropsLimited(Tail(decisions), recent_auto_approvals,
                                                 auto_approvals_added)
                  ELSE <<decision>> \o
                       RateLimitWalkDropsLimited(Tail(decisions), recent_auto_approvals,
                                                 auto_approvals_added + 1)
             ELSE <<decision>> \o
                  RateLimitWalkDropsLimited(Tail(decisions), recent_auto_approvals,
                                            auto_approvals_added)

\* the loop of lines 348-363: the decisions in order, as appended to filtered_decisions
RECURSIVE RateLimitWalk(_, _, _)
RateLimitWalk(decisions, recent_auto_approvals, auto_approvals_added) ==
    IF decisions = <<>>
    THEN <<>>
    ELSE LET decision == Head(decisions)
         IN  IF IsAutoApproval(decision)
             THEN IF RateLimitReached(recent_auto_approvals, auto_approvals_added)
                  THEN <<Downgrade(decision)>> \o
                       RateLimitWalk(Tail(decisions), recent_auto_approvals,
                                     auto_approvals_added)
                  ELSE <<decision>> \o
                       RateLimitWalk(Tail(decisions), recent_auto_approvals,
                                     auto_approvals_added + 1)
             ELSE <<decision>> \o
                  RateLimitWalk(Tail(decisions), recent_auto_approvals,
                                auto_approvals_added)

\* the history taking the decisions as the evaluator made them
_apply_business_rules_files_provisional(decisions, history, t) ==
    LET cutoff == t - Hour
        kept == PruneHistory(history, cutoff)
        recent_auto_approvals == CountAutoApprovals(kept)
        filtered == RateLimitWalk(decisions, recent_auto_approvals, 0)
    IN  [cutoff_time |-> cutoff,
         recent_decisions |-> kept \o decisions,
         filtered_decisions |-> filtered]

\* t: the reading of datetime.now() at line 333
_apply_business_rules(decisions, history, t) ==
    LET cutoff == t - Hour
        kept == PruneHistory(history, cutoff)
        recent_auto_approvals == CountAutoApprovals(kept)
        filtered == RateLimitWalk(decisions, recent_auto_approvals, 0)
    IN  [cutoff_time |-> cutoff,
         recent_decisions |-> kept \o filtered,
         filtered_decisions |-> filtered]

(***************************************************************************)
(* The summary of a decision list.                                         *)
(***************************************************************************)
RECURSIVE SumOfConfidence(_)
SumOfConfidence(decisions) ==
    IF decisions = <<>> THEN 0
    ELSE Head(decisions).confidence + SumOfConfidence(Tail(decisions))

\* round(a / b, 3) of a sum a of hundredths, in thousandths; an exact tie goes to
\* the even neighbour, as round() does on the decimal value
RoundedMean(a, b) ==
    LET q == (10 * a) \div b
        r == (10 * a) % b
    IN  IF 2 * r < b THEN q
        ELSE IF 2 * r > b THEN q + 1
        ELSE IF q % 2 = 0 THEN q ELSE q + 1

\* lines 392-426; average_confidence is in thousandths
get_decision_summary(decisions) ==
    IF decisions = <<>>
    THEN [total_decisions |-> 0,
          auto_approved |-> 0,
          escalations |-> 0,
          scheduled |-> 0,
          average_confidence |-> 0]
    ELSE LET auto_approved ==
                 Cardinality({k \in DOMAIN decisions : decisions[k].auto_approved})
             escalations ==
                 Cardinality({k \in DOMAIN decisions :
                                 decisions[k].outcome = "escalate_human"})
             scheduled ==
                 Cardinality({k \in DOMAIN decisions :
                                 decisions[k].outcome = "schedule_maintenance"})
         IN  [total_decisions |-> Len(decisions),
              auto_approved |-> auto_approved,
              escalations |-> escalations,
              scheduled |-> scheduled,
              monitor_only |-> Len(decisions) - auto_approved - escalations - scheduled,
              average_confidence |-> RoundedMean(SumOfConfidence(decisions),
                                                  Len(decisions)),
              decisions |->
                  [k \in DOMAIN decisions |->
                      [id |-> decisions[k].id,
                       issue_id |-> decisions[k].issue_id,
                       outcome |-> decisions[k].outcome,
                       confidence |-> decisions[k].confidence,
                       auto_approved |-> decisions[k].auto_approved,
                       reasoning |-> decisions[k].reasoning,
                       action_type |-> decisions[k].recommendation.action_type,
                       estimated_completion |-> decisions[k].estimated_completion]]]

(***************************************************************************)
(* Inputs of the engine under Spec: the payloads a producer may send.      *)
(***************************************************************************)
CriticalServicesOfMain == {"payment-service", "user-auth", "core-api"}

DefaultConfidenceThreshold == 80

\* issue_002 is reported twice: the later record replaces the earlier one
IssueMenu ==
    <<[id |-> "issue_002", severity |-> "critical", affected_services |-> {"core-api"}],
      [id |-> "issue_001", severity |-> "high", affected_services |-> {"payment-service"}],
      [id |-> "issue_002", severity |-> "medium", affected_services |-> {}],
      [id |-> "issue_003", severity |-> "critical", affected_services |-> {}]>>

IssuePayloads == {IssueMenu}

RecommendationMenu ==
    {[issue_id |-> "issue_002", action_type |-> "scale_up", confidence_score |-> 85,
      time_estimate |-> 5, prerequisites |-> <<>>],
     [issue_id |-> "issue_001", action_type |-> "scale_up", confidence_score |-> 85,
      time_estimate |-> 5, prerequisites |-> <<"sufficient_capacity">>],
     [issue_id |-> "issue_003", action_type |-> "restart_service", confidence_score |-> 95,
      time_estimate |-> 30, prerequisites |-> <<>>],
     [issue_id |-> "issue_404", action_type |-> "scale_up", confidence_score |-> 95,
      time_estimate |-> 5, prerequisites |-> <<>>]}

\* a record whose action_type is no member of ActionType
MalformedRecommendation ==
    [issue_id |-> "issue_002", action_type |-> "deploy_patch", confidence_score |-> 85,
     time_estimate |-> 5, prerequisites |-> <<>>]

\* the well-formed payloads of at most max records, in any order
RecommendationPayloads(max) == UNION {[1..n -> RecommendationMenu] : n \in 0..max}

\* a record whose severity is no member of Severity
UnknownSeverityIssue ==
    [id |-> "issue_005", severity |-> "urgent", affected_services |-> {}]

\* a record whose timestamp is not in ISO format
BadTimestampIssue ==
    [id |-> "issue_005", severity |-> "low", affected_services |-> {},
     timestamp |-> "yesterday"]

\* a record whose confidence_score is a string, for an issue of the payload
WronglyTypedRecommendation ==
    [issue_id |-> "issue_002", action_type |-> "scale_up", confidence_score |-> NotANumber,
     time_estimate |-> 5, prerequisites |-> <<>>]

\* the same, for an issue the payload does not hold
WronglyTypedOrphanRecommendation ==
    [issue_id |-> "issue_404", action_type |-> "scale_up", confidence_score |-> NotANumber,
     time_estimate |-> 5, prerequisites |-> <<>>]

\* a recommendation that is auto-resolved when nothing else is wrong
SoundRecommendation ==
    [issue_id |-> "issue_002", action_type |-> "scale_up", confidence_score |-> 85,
     time_estimate |-> 5, prerequisites |-> <<>>]

\* a restart for the critical issue, below the confidence its severity needs
UnsureCriticalRecommendation ==
    [issue_id |-> "issue_003", action_type |-> "restart_service", confidence_score |-> 90,
     time_estimate |-> 30, prerequisites |-> <<>>]

\* The arguments of process_ai_analysis holding at most max recommendations: text
\* that is no JSON (a truncated payload), JSON that is no object (the payload
\* wrapped in an array), and objects; every defective argument holds a sound
\* recommendation before its defect.  The unsure restart follows a sound
\* recommendation too.
Responses(max) ==
    {[kind |-> k, issues |-> IssueMenu, recommendations |-> <<SoundRecommendation>>] :
        k \in IF max >= 1 THEN {"invalid_json", "not_an_object"} ELSE {}}
    \cup {[kind |-> "object", issues |-> i, recommendations |-> r] :
            i \in IssuePayloads, r \in RecommendationPayloads(max)}
    \cup {[kind |-> "object", issues |-> IssueMenu,
           recommendations |-> <<SoundRecommendation, r>>] :
            r \in IF max >= 2 THEN {UnsureCriticalRecommendation} ELSE {}}
    \cup {[kind |-> "object", issues |-> Append(IssueMenu, i),
           recommendations |-> <<SoundRecommendation>>] :
            i \in IF max >= 1 THEN {UnknownSeverityIssue, BadTimestampIssue} ELSE {}}
    \cup {[kind |-> "object", issues |-> IssueMenu,
           recommendations |-> <<SoundRecommendation, r>>] :
            r \in IF max >= 2
                  THEN {MalformedRecommendation, WronglyTypedRecommendation,
                        WronglyTypedOrphanRecommendation}
                  ELSE {}}

(***************************************************************************)
(* The engine.                                                             *)
(***************************************************************************)
\* the threads that may call one engine at the same time
Threads == {"first", "second"}

\* the locals of process_ai_analysis and _apply_business_rules before a call
NotStarted ==
    [pc |-> "start", decisions |-> <<>>, remaining |-> <<>>, kept |-> <<>>,
     cutoff_time |-> NoValue, recent_auto_approvals |-> 0, auto_approvals_added |-> 0,
     filtered_decisions |-> <<>>]

Init ==
    /\ confidence_threshold = DefaultConfidenceThreshold
    /\ max_auto_deployments_per_hour \in 0..MaxCap
    /\ business_hours_only = FALSE
    /\ critical_services = CriticalServicesOfMain
    /\ recent_decisions = <<>>
    /\ now = StartTime
    /\ issues_data = <<>>
    /\ recommendations_data = <<>>
    /\ checks = <<>>
    /\ provisional = <<>>
    /\ filtered_decisions = <<>>
    /\ history_before = <<>>
    /\ cutoff_time = NoValue
    /\ submitted = 0
    /\ ai_response = "none"
    /\ summaries = <<>>
    /\ calls = [th \in Threads |-> NotStarted]
    /\ phase = "idle"

\* the clock moves forward between calls
Tick ==
    /\ \E t \in ClockValues : t > now /\ now' = t
    /\ UNCHANGED <<config, recent_decisions, issues_data, recommendations_data, checks,
                   provisional, filtered_decisions, history_before, cutoff_time, submitted,
                   ai_response, summaries, calls, phase>>

\* The k-th reading of datetime.now() within one call that starts at t0: the clock
\* moves on by one minute just before reading p (p = 0: it does not move).
ReadAt(t0, p, k) == IF p > 0 /\ k >= p THEN t0 + 1 ELSE t0

\* Under Spec the clock moves within a call, if at all, between the evaluator's
\* last reading and the arbiter's.
DriftPoints(n) == {0, 4 * n + 1}

\* a call that decides and files each recommendation in turn, so that the sound
\* first one is in the history when the second one raises
ProcessFailsAfterFiling(response) ==
    /\ \/ response.kind # "object"
       \/ ParseFails(response.issues, response.recommendations)
       \/ EvaluationFails(response.issues, response.recommendations)
    /\ ai_response' = response.kind
    /\ issues_data' = response.issues
    /\ recommendations_data' = response.recommendations
    /\ checks' = <<>>
    /\ provisional' = <<>>
    /\ filtered_decisions' = <<>>
    /\ history_before' = recent_decisions
    /\ cutoff_time' = NoValue
    /\ submitted' = submitted + Len(response.recommendations)
    /\ summaries' = <<>>
    /\ phase' = "failed"
    /\ recent_decisions' =
          IF /\ response.kind = "object"
             /\ ~ParseFails(response.issues, response.recommendations)
          THEN Append(recent_decisions,
                      _make_decision(_parse_recommendations(response.recommendations)[1],
                                     _parse_issues(response.issues), now, now, now, now))
          ELSE recent_decisions
    /\ UNCHANGED <<config, now, calls>>

\* process_ai_analysis when json.loads (line 122), analysis.get (line 123),
\* _parse_issues, _parse_recommendations or _make_decision raises: the except
\* clauses (lines 137-143) return [], and the arbiter has not run
ProcessFails(response) ==
    /\ \/ response.kind # "object"
       \/ ParseFails(response.issues, response.recommendations)
       \/ EvaluationFails(response.issues, response.recommendations)
    /\ ai_response' = response.kind
    /\ issues_data' = response.issues
    /\ recommendations_data' = response.recommendations
    /\ checks' = <<>>
    /\ provisional' = <<>>
    /\ filtered_decisions' = <<>>
    /\ history_before' = recent_decisions
    /\ cutoff_time' = NoValue
    /\ submitted' = submitted + Len(response.recommendations)
    /\ summaries' = <<>>
    /\ phase' = "failed"
    /\ UNCHANGED <<config, recent_decisions, now, calls>>

\* process_ai_analysis on a payload that parses: evaluator per recommendation,
\* then the arbiter once.  Recommendation i reads the clock at 4(i-1)+1 .. 4i
\* (business hours, id, timestamp, estimated_completion), the arbiter at 4n+1.
ProcessSucceeds(issues_in, recommendations_in, p) ==
    /\ ~ParseFails(issues_in, recommendations_in)
    /\ ~EvaluationFails(issues_in, recommendations_in)
    /\ p <= 4 * Len(recommendations_in) + 1
    /\ ReadAt(now, p, 4 * Len(recommendations_in) + 1) \in ClockValues
    /\ LET n == Len(recommendations_in)
           issues == _parse_issues(issues_in)
           recommendations == _parse_recommendations(recommendations_in)
       IN  \E decisions \in
                 {[i \in 1..n |->
                     _make_decision(recommendations[i], issues,
                                    ReadAt(now, p, 4 * (i - 1) + 1),
                                    ReadAt(now, p, 4 * (i - 1) + 2),
                                    ReadAt(now, p, 4 * (i - 1) + 3),
                                    ReadAt(now, p, 4 * (i - 1) + 4))]} :
           \E result \in {_apply_business_rules(decisions, recent_decisions,
                                                 ReadAt(now, p, 4 * n + 1))} :
               /\ ai_response' = "object"
               /\ issues_data' = issues_in
               /\ recommendations_data' = recommendations_in
               /\ checks' = [i \in 1..n |->
                               GateChecks(recommendations[i], issues,
                                          ReadAt(now, p, 4 * (i - 1) + 1))]
               /\ provisional' = decisions
               /\ filtered_decisions' = result.filtered_decisions
               /\ history_before' = recent_decisions
               /\ cutoff_time' = result.cutoff_time
               /\ recent_decisions' = result.recent_decisions
               /\ now' = ReadAt(now, p, 4 * n + 1)
               /\ submitted' = submitted + Len(recommendations_in)
               /\ summaries' = <<>>
               /\ phase' = "returned"
               /\ UNCHANGED <<config, calls>>

ProcessAIAnalysis ==
    /\ \E response \in Responses(MaxRecommendations - submitted) :
           \/ ProcessFails(response)
           \/ /\ response.kind = "object"
              /\ \E p \in DriftPoints(Len(response.recommendations)) :
                     ProcessSucceeds(response.issues, response.recommendations, p)

Next ==
    \/ Tick
    \/ ProcessAIAnalysis

Spec == Init /\ [][Next]_vars

(***************************************************************************)
(* The caller of main: one engine, calls of process_ai_analysis and, on    *)
(* the list a call returned, calls of get_decision_summary.                *)
(***************************************************************************)
\* a summary computed over the history, in which it files the summarised decisions
GetDecisionSummaryRecording ==
    /\ phase \in {"returned", "failed"}
    /\ Len(summaries) < MaxSummaries
    /\ summaries' = Append(summaries, get_decision_summary(recent_decisions))
    /\ recent_decisions' = recent_decisions \o filtered_decisions
    /\ UNCHANGED <<config, now, issues_data, recommendations_data, checks, provisional,
                   filtered_decisions, history_before, cutoff_time, submitted,
                   ai_response, calls, phase>>

\* engine.get_decision_summary(decisions) on the list of the latest call (line 472)
GetDecisionSummary ==
    /\ phase \in {"returned", "failed"}
    /\ Len(summaries) < MaxSummaries
    /\ summaries' = Append(summaries, get_decision_summary(filtered_decisions))
    /\ UNCHANGED <<config, recent_decisions, now, issues_data, recommendations_data,
                   checks, provisional, filtered_decisions, history_before, cutoff_time,
                   submitted, ai_response, calls, phase>>

NextSummary ==
    \/ ProcessAIAnalysis
    \/ GetDecisionSummary

SpecSummary == Init /\ [][NextSummary]_vars

(***************************************************************************)
(* Two threads calling process_ai_analysis on one engine.  The engine      *)
(* holds no lock, so the calls interleave between the statements of        *)
(* _apply_business_rules; each action is one statement (one turn of the    *)
(* loop) of one call.  The clock stands still.                             *)
(***************************************************************************)
engine_ghosts ==
    <<issues_data, recommendations_data, checks, provisional, filtered_decisions,
      history_before, cutoff_time, submitted, ai_response, summaries, phase>>

\* the batches of the concurrent calls: one or two recommendations, one kind
\* auto-resolved by the evaluator, the other scheduled by it
ConcurrentPayloads ==
    LET menu == {r \in RecommendationMenu : r.issue_id \in {"issue_001", "issue_002"}}
    IN  UNION {[1..n -> menu] : n \in 1..2}

\* lines 121-130: parse, then _make_decision per recommendation; touches no
\* attribute of the engine
CallEvaluate(th) ==
    /\ calls[th].pc = "start"
    /\ \E recommendations_in \in ConcurrentPayloads :
          LET issues == _parse_issues(IssueMenu)
              recommendations == _parse_recommendations(recommendations_in)
              decisions == [i \in DOMAIN recommendations |->
                              _make_decision(recommendations[i], issues,
                                             now, now, now, now)]
          IN  calls' = [calls EXCEPT ![th].pc = "prune",
                                     ![th].decisions = decisions,
                                     ![th].remaining = decisions]
    /\ UNCHANGED <<config, recent_decisions, now, engine_ghosts>>

\* lines 333-337, right-hand side: the list comprehension over self.recent_decisions
CallPrune(th) ==
    /\ calls[th].pc = "prune"
    /\ calls' = [calls EXCEPT ![th].pc = "store",
                               ![th].cutoff_time = now - Hour,
                               ![th].kept = PruneHistory(recent_decisions, now - Hour)]
    /\ UNCHANGED <<config, recent_decisions, now, engine_ghosts>>

\* line 334: the assignment to self.recent_decisions
CallStore(th) ==
    /\ calls[th].pc = "store"
    /\ recent_decisions' = calls[th].kept
    /\ calls' = [calls EXCEPT ![th].pc = "count"]
    /\ UNCHANGED <<config, now, engine_ghosts>>

\* lines 340-343
CallCount(th) ==
    /\ calls[th].pc = "count"
    /\ calls' = [calls EXCEPT ![th].pc = "walk",
                               ![th].recent_auto_approvals =
                                   CountAutoApprovals(recent_decisions)]
    /\ UNCHANGED <<config, recent_decisions, now, engine_ghosts>>

\* one turn of the loop of lines 348-363
CallWalk(th) ==
    /\ calls[th].pc = "walk"
    /\ calls[th].remaining # <<>>
    /\ LET c == calls[th]
           decision == Head(c.remaining)
           limited == /\ IsAutoApproval(decision)
                      /\ RateLimitReached(c.recent_auto_approvals,
                                          c.auto_approvals_added)
           final == IF limited THEN Downgrade(decision) ELSE decision
       IN  /\ calls' = [calls EXCEPT
                          ![th].remaining = Tail(c.remaining),
                          ![th].auto_approvals_added =
                              IF IsAutoApproval(decision) /\ ~limited
                              THEN c.auto_approvals_added + 1
                              ELSE c.auto_approvals_added,
                          ![th].filtered_decisions = Append(c.filtered_decisions, final)]
           /\ recent_decisions' = Append(recent_decisions, final)
    /\ UNCHANGED <<config, now, engine_ghosts>>

\* lines 365-366 and 135
CallReturn(th) ==
    /\ calls[th].pc = "walk"
    /\ calls[th].remaining = <<>>
    /\ calls' = [calls EXCEPT ![th].pc = "done"]
    /\ UNCHANGED <<config, recent_decisions, now, engine_ghosts>>

NextConcurrent ==
    \E th \in Threads :
        \/ CallEvaluate(th)
        \/ CallPrune(th)
        \/ CallStore(th)
        \/ CallCount(th)
        \/ CallWalk(th)
        \/ CallReturn(th)

SpecConcurrent == Init /\ [][NextConcurrent]_vars

(***************************************************************************)
(* The evaluator alone: SpecEval draws one issue, one recommendation, a    *)
(* configuration and a clock reading, and applies _make_decision once.     *)
(***************************************************************************)
EvalThresholds == {50, 80}

EvalConfidences == {0, 59, 60, 79, 80, 84, 85, 89, 90, 94, 95}

\* 08:59, 09:00, 17:59, 18:00
EvalClockValues ==
    {BusinessOpen * Hour - 1, BusinessOpen * Hour,
     (BusinessClose + 1) * Hour - 1, (BusinessClose + 1) * Hour}

EvalIssues ==
    {[id |-> "issue_001", severity |-> s, affected_services |-> a] :
        s \in Severity, a \in {{}, {"payment-service"}}}

EvalEstimates ==
    {[time_estimate |-> 5, prerequisites |-> <<>>],
     [time_estimate |-> 30,
      prerequisites |-> <<"sufficient_capacity", "auto_scaling_enabled">>]}

EvalRecommendations(issue_ids) ==
    {[issue_id |-> i, action_type |-> a, confidence_score |-> c,
      time_estimate |-> e.time_estimate, prerequisites |-> e.prerequisites] :
        i \in issue_ids, a \in ActionType, c \in EvalConfidences, e \in EvalEstimates}

InitEval ==
    /\ max_auto_deployments_per_hour = MaxCap
    /\ recent_decisions = <<>>
    /\ now \in EvalClockValues
    /\ checks = <<>>
    /\ provisional = <<>>
    /\ filtered_decisions = <<>>
    /\ history_before = <<>>
    /\ cutoff_time = NoValue
    /\ submitted = 0
    /\ ai_response = "object"
    /\ summaries = <<>>
    /\ calls = [th \in Threads |-> NotStarted]
    /\ phase = "input"
    /\ issues_data \in {<<i>> : i \in EvalIssues}
    /\ \/ /\ confidence_threshold \in EvalThresholds
          /\ business_hours_only \in BOOLEAN
          /\ critical_services \in {{}, CriticalServicesOfMain}
          /\ recommendations_data \in {<<r>> : r \in EvalRecommendations({"issue_001"})}
       \/ /\ confidence_threshold = DefaultConfidenceThreshold
          /\ business_hours_only = FALSE
          /\ critical_services = CriticalServicesOfMain
          /\ issues_data[1].severity = "high"
          /\ recommendations_data \in {<<r>> : r \in EvalRecommendations({"unknown"})}

\* _make_decision on the drawn recommendation; its clock readings are 1 (business
\* hours), 2 (id), 3 (timestamp) and 4 (estimated_completion)
MakeDecision ==
    /\ phase = "input"
    /\ \E p \in 0..4 :
        /\ ReadAt(now, p, 4) \in EvalClockValues
        /\ LET issues == _parse_issues(issues_data)
               recommendation == _parse_recommendations(recommendations_data)[1]
           IN  /\ checks' = <<GateChecks(recommendation, issues, ReadAt(now, p, 1))>>
               /\ provisional' =
                     <<_make_decision(recommendation, issues, ReadAt(now, p, 1),
                                      ReadAt(now, p, 2), ReadAt(now, p, 3),
                                      ReadAt(now, p, 4))>>
        /\ now' = ReadAt(now, p, 4)
    /\ phase' = "evaluated"
    /\ UNCHANGED <<config, recent_decisions, issues_data, recommendations_data,
                   filtered_decisions, history_before, cutoff_time, submitted,
                   ai_response, summaries, calls>>

NextEval == MakeDecision

SpecEval == InitEval /\ [][NextEval]_vars

(***************************************************************************)
(* Properties of the batch arbiter, checked under Spec.                    *)
(***************************************************************************)
Min(a, b) == IF a <= b THEN a ELSE b
Max(a, b) == IF a >= b THEN a ELSE b

Returned == phase = "returned"

\* the entries of the rolling history that survived the latest call's pruning
SurvivingHistory ==
    SubSeq(recent_decisions, 1, Len(recent_decisions) - Len(filtered_decisions))

AutoResolved(d) == d.outcome = "auto_resolve" /\ d.auto_approved

\* r: the auto-approved auto-resolve entries of the pruned history
SurvivingAutoApprovals ==
    Cardinality({k \in DOMAIN SurvivingHistory : AutoResolved(SurvivingHistory[k])})

\* the positions of the batch whose decision the evaluator made auto-resolve
Candidates == {i \in DOMAIN provisional : AutoResolved(provisional[i])}

\* the positions of the batch returned as auto-resolve
Kept == {i \in DOMAIN filtered_decisions : AutoResolved(filtered_decisions[i])}

RankAmongCandidates(i) == Cardinality({j \in Candidates : j <= i})

\* C1: with r auto-approved auto-resolve entries in the pruned history, N candidates
\* in the batch and cap K, exactly the first max(0, min(N, K - r)) candidates, in
\* input order, stay auto-resolve and auto-approved; every later candidate becomes
\* schedule-maintenance and not auto-approved.
C1_FifoRateLimit ==
    Returned =>
        LET budget == Max(0, Min(Cardinality(Candidates),
                                 max_auto_deployments_per_hour - SurvivingAutoApprovals))
        IN  /\ Len(filtered_decisions) = Len(provisional)
            /\ \A i \in Candidates :
                  IF RankAmongCandidates(i) <= budget
                  THEN /\ filtered_decisions[i].outcome = "auto_resolve"
                       /\ filtered_decisions[i].auto_approved
                  ELSE /\ filtered_decisions[i].outcome = "schedule_maintenance"
                       /\ ~filtered_decisions[i].auto_approved

\* two candidates, cap 1, nothing in the pruned history: the first stays, the second
\* is downgraded
C1_Witness ==
    /\ Returned
    /\ max_auto_deployments_per_hour = 1
    /\ SurvivingAutoApprovals = 0
    /\ Candidates = {1, 2}
    /\ AutoResolved(filtered_decisions[1])
    /\ filtered_decisions[2].outcome = "schedule_maintenance"

\* C2: on an engine started with empty history and a cap K >= 0, the rolling history
\* never holds more than K auto-approved auto-resolve entries.
C2_HistoryWithinCap ==
    Cardinality({k \in DOMAIN recent_decisions : AutoResolved(recent_decisions[k])})
        <= max_auto_deployments_per_hour

\* after a second call the history holds exactly K >= 1 such entries and a decision
\* that the rate limit downgraded
C2_Witness ==
    /\ Returned
    /\ history_before # <<>>
    /\ max_auto_deployments_per_hour >= 1
    /\ Cardinality({k \in DOMAIN recent_decisions : AutoResolved(recent_decisions[k])})
           = max_auto_deployments_per_hour
    /\ \E k \in DOMAIN recent_decisions : recent_decisions[k].reasoning.rate_limited

\* C4: a recommendation whose issue_id is not in the batch's issue map yields an
\* escalate-human decision with confidence 0.0, not auto-approved, estimated
\* completion a clock reading of the call plus 120 minutes, whatever the
\* recommendation holds; the other recommendations of the batch are evaluated as usual.
C4_MissingIssueEscalates ==
    Returned =>
        /\ Len(filtered_decisions) = Len(recommendations_data)
        /\ \A i \in DOMAIN recommendations_data :
              LET rec == recommendations_data[i]
                  d == filtered_decisions[i]
              IN  IF \A k \in DOMAIN issues_data : issues_data[k].id # rec.issue_id
                  THEN /\ d.outcome = "escalate_human"
                       /\ d.confidence = 0
                       /\ ~d.auto_approved
                       /\ d.issue_id = rec.issue_id
                       /\ d.timestamp <= d.estimated_completion - 120
                       /\ d.estimated_completion - 120 <= cutoff_time + Hour
                  ELSE /\ checks[i].found
                       /\ d.confidence = rec.confidence_score
                       /\ d.reasoning.text # "Issue not found"
                       /\ provisional[i].auto_approved =
                            (/\ checks[i].confidence_check
                             /\ checks[i].severity_check
                             /\ checks[i].business_impact_check
                             /\ checks[i].technical_check)

\* a batch of a high-confidence safe action on an unknown issue and an ordinary
\* recommendation: the first is escalated, the second auto-resolved
C4_Witness ==
    /\ Returned
    /\ Len(recommendations_data) = 2
    /\ recommendations_data[1].issue_id = "issue_404"
    /\ recommendations_data[1].confidence_score = 95
    /\ filtered_decisions[1].outcome = "escalate_human"
    /\ filtered_decisions[1].confidence = 0
    /\ AutoResolved(filtered_decisions[2])

\* C10: a history entry more than 60 minutes older than the evaluation time of a
\* call is gone before the count, so it takes nothing from that call's budget; when
\* every auto-approval of the history is that old the batch is limited as on an
\* empty history.
C10_OldEntriesNeverCount ==
    Returned =>
        LET evaluation_time == cutoff_time + Hour
            Old(k) == history_before[k].timestamp < evaluation_time - 60
            not_old_auto_approvals ==
                Cardinality({k \in DOMAIN history_before :
                                ~Old(k) /\ AutoResolved(history_before[k])})
            N == Cardinality(Candidates)
            K == max_auto_deployments_per_hour
        IN  /\ \A k \in DOMAIN history_before :
                  Old(k) => \A j \in DOMAIN SurvivingHistory :
                                SurvivingHistory[j] # history_before[k]
            /\ Cardinality(Kept) >= Min(N, Max(0, K - not_old_auto_approvals))
            /\ (\A k \in DOMAIN history_before :
                    AutoResolved(history_before[k]) => Old(k))
                 => Cardinality(Kept) = Min(N, Max(0, K))

\* K auto-approvals, then a batch 61 minutes later: it gets the whole budget again
C10_Witness ==
    /\ Returned
    /\ max_auto_deployments_per_hour >= 1
    /\ Cardinality({k \in DOMAIN history_before : AutoResolved(history_before[k])})
           = max_auto_deployments_per_hour
    /\ \A k \in DOMAIN history_before :
           history_before[k].timestamp < cutoff_time
    /\ Cardinality(Kept) = max_auto_deployments_per_hour

(***************************************************************************)
(* Properties of the evaluator, checked under SpecEval.                    *)
(***************************************************************************)
\* _make_decision has evaluated the drawn recommendation against its issue
Evaluated == phase = "evaluated" /\ checks[1].found

TheIssue == issues_data[1]
TheRecommendation == recommendations_data[1]
TheChecks == checks[1]
TheDecision == provisional[1]

CriticalServiceAffected == TheIssue.affected_services \cap critical_services # {}

AllGatesPass ==
    /\ TheRecommendation.confidence_score >= confidence_threshold
    /\ TheChecks.severity_check
    /\ TheChecks.business_impact_check
    /\ TheChecks.technical_check

\* C3: first match wins: auto-resolve and auto-approved iff all four gates pass;
\* otherwise schedule-maintenance, not auto-approved, iff confidence >= 0.6 and the
\* severity is not critical; otherwise escalate-human, not auto-approved.  A critical
\* issue at confidence 0.90 is escalated.
C3_DispositionOrder ==
    Evaluated =>
        LET d == TheDecision
            medium == /\ TheRecommendation.confidence_score >= 60
                      /\ TheIssue.severity # "critical"
        IN  /\ (d.outcome = "auto_resolve") = AllGatesPass
            /\ d.auto_approved = AllGatesPass
            /\ ~AllGatesPass =>
                  /\ (d.outcome = "schedule_maintenance") = medium
                  /\ (d.outcome = "escalate_human") = ~medium
            /\ (TheIssue.severity = "critical" /\ TheRecommendation.confidence_score = 90)
                  => d.outcome = "escalate_human" /\ ~d.auto_approved

\* a critical issue at confidence 0.90 with a safe action: escalated
C3_Witness ==
    /\ Evaluated
    /\ TheIssue.severity = "critical"
    /\ TheRecommendation.confidence_score = 90
    /\ TheRecommendation.action_type = "scale_up"
    /\ TheDecision.outcome = "escalate_human"

\* the premises of C5: confidence at the threshold or above, the severity's bound
\* met, no critical service affected, a safe action
C5_Premises ==
    /\ Evaluated
    /\ TheRecommendation.confidence_score >= confidence_threshold
    /\ TheIssue.severity = "critical" => TheRecommendation.confidence_score >= 95
    /\ TheIssue.severity = "high" => TheRecommendation.confidence_score >= 85
    /\ ~CriticalServiceAffected
    /\ TheRecommendation.action_type \in {"scale_up", "configuration_change",
                                          "restart_service"}

\* C5 as claimed: under every configuration the premises give auto-resolve,
\* auto-approved.
C5_SafeActionAlwaysAutoResolves ==
    C5_Premises => TheDecision.outcome = "auto_resolve" /\ TheDecision.auto_approved

\* C5 as amended: the premises give auto-resolve, auto-approved, unless
\* business-hours-only mode is on, the severity is high or critical and the local
\* hour is outside 9..17.
C5_SafeActionAutoResolvesInHours ==
    (/\ C5_Premises
     /\ \/ ~business_hours_only
        \/ TheIssue.severity \in {"low", "medium"}
        \/ TheChecks.current_hour \in 9..17)
        => TheDecision.outcome = "auto_resolve" /\ TheDecision.auto_approved

\* business-hours-only mode, a high-severity issue at 09:xx, restart_service
C5_Witness ==
    /\ C5_Premises
    /\ business_hours_only
    /\ TheIssue.severity = "high"
    /\ TheChecks.current_hour = 9
    /\ TheRecommendation.action_type = "restart_service"
    /\ TheDecision.outcome = "auto_resolve"

\* C6: the severity/risk gate passes exactly when severity is critical and
\* confidence >= 0.95, or high and confidence >= 0.85, or medium or low; the bounds
\* are inclusive: high, 0.85, scale-up, no critical service, threshold 0.8 (and the
\* default business_hours_only = false) gives auto-resolve.
C6_SeverityGate ==
    Evaluated =>
        /\ TheChecks.severity_check =
              (\/ TheIssue.severity = "critical" /\ TheRecommendation.confidence_score >= 95
               \/ TheIssue.severity = "high" /\ TheRecommendation.confidence_score >= 85
               \/ TheIssue.severity \in {"medium", "low"})
        /\ (/\ TheIssue.severity = "high"
            /\ TheRecommendation.confidence_score = 85
            /\ TheRecommendation.action_type = "scale_up"
            /\ ~CriticalServiceAffected
            /\ confidence_threshold = 80
            /\ ~business_hours_only)
              => TheDecision.outcome = "auto_resolve"

C6_Witness ==
    /\ Evaluated
    /\ TheIssue.severity = "high"
    /\ TheRecommendation.confidence_score = 85
    /\ TheRecommendation.action_type = "scale_up"
    /\ ~CriticalServiceAffected
    /\ confidence_threshold = 80
    /\ TheChecks.severity_check
    /\ TheDecision.outcome = "auto_resolve"

\* C7: when an affected service is in the critical-service set, the recommendation
\* is auto-resolved only if its action is scale-up or configuration-change and its
\* confidence is >= 0.9; the other five actions are never auto-resolved.
C7_CriticalServiceGuard ==
    (Evaluated /\ CriticalServiceAffected) =>
        /\ TheChecks.business_impact_check =
              (/\ TheRecommendation.action_type \in {"scale_up", "configuration_change"}
               /\ TheRecommendation.confidence_score >= 90)
        /\ (TheDecision.outcome = "auto_resolve" \/ TheDecision.auto_approved) =>
              /\ TheRecommendation.action_type \in {"scale_up", "configuration_change"}
              /\ TheRecommendation.confidence_score >= 90
        /\ TheRecommendation.action_type \in
              {"restart_service", "rollback", "code_fix", "scale_down", "manual_review"}
              => TheDecision.outcome # "auto_resolve"

\* payment-service affected, configuration-change at 0.90 on a medium issue
C7_Witness ==
    /\ Evaluated
    /\ CriticalServiceAffected
    /\ TheRecommendation.action_type = "configuration_change"
    /\ TheRecommendation.confidence_score = 90
    /\ TheDecision.outcome = "auto_resolve"

\* C8: with business-hours-only mode on and no critical service affected, a high or
\* critical recommendation fails the business-impact gate exactly when the local
\* hour is outside 9..17; medium and low pass; with the mode off the gate passes at
\* every hour; with a critical service affected the hour is not read.
C8_BusinessHoursGate ==
    Evaluated =>
        /\ (business_hours_only /\ ~CriticalServiceAffected) =>
              /\ TheChecks.current_hour \in {HourOf(now), HourOf(now - 1)}
              /\ TheIssue.severity \in {"high", "critical"} =>
                    (TheChecks.business_impact_check = (TheChecks.current_hour \in 9..17))
              /\ TheIssue.severity \in {"medium", "low"} =>
                    TheChecks.business_impact_check
        /\ (~business_hours_only /\ ~CriticalServiceAffected) =>
              /\ TheChecks.business_impact_check
              /\ TheChecks.current_hour = NoValue
        /\ CriticalServiceAffected =>
              /\ TheChecks.current_hour = NoValue
              /\ TheChecks.business_impact_check =
                    (/\ TheRecommendation.action_type \in {"scale_up", "configuration_change"}
                     /\ TheRecommendation.confidence_score >= 90)

\* business-hours-only mode, a high-severity issue evaluated at 17:59: the gate passes
C8_Witness ==
    /\ Evaluated
    /\ business_hours_only
    /\ ~CriticalServiceAffected
    /\ TheIssue.severity = "high"
    /\ TheChecks.current_hour = 17
    /\ TheChecks.business_impact_check
    /\ TheDecision.outcome = "auto_resolve"

\* C9: the technical-feasibility gate passes for rollback and code-fix exactly when
\* confidence >= 0.9, always for scale-up, configuration-change and restart-service,
\* never for scale-down and manual-review, which are therefore never auto-resolved;
\* the prerequisites do not enter the result.
C9_TechnicalGate ==
    Evaluated =>
        /\ TheChecks.technical_check =
              (\/ /\ TheRecommendation.action_type \in {"rollback", "code_fix"}
                  /\ TheRecommendation.confidence_score >= 90
               \/ TheRecommendation.action_type \in
                     {"scale_up", "configuration_change", "restart_service"})
        /\ TheRecommendation.action_type \in {"scale_down", "manual_review"} =>
              /\ ~TheChecks.technical_check
              /\ TheDecision.outcome # "auto_resolve"
              /\ ~TheDecision.auto_approved

\* a rollback at 0.90 with prerequisites listed passes the gate
C9_Witness ==
    /\ Evaluated
    /\ TheRecommendation.action_type = "rollback"
    /\ TheRecommendation.confidence_score = 90
    /\ TheRecommendation.prerequisites # <<>>
    /\ TheChecks.technical_check
    /\ TheDecision.outcome = "auto_resolve"

(***************************************************************************)
(* Claims about a whole call, continued (checked under Spec).              *)
(***************************************************************************)
\* C11: a call that succeeds returns exactly one decision per recommendation of the
\* payload, in the payload's order: the lists have the same length and the i-th
\* decision carries the i-th recommendation and its issue_id; the arbiter neither
\* drops, adds nor reorders decisions.
C11_OneDecisionPerRecommendation ==
    Returned =>
        /\ Len(filtered_decisions) = Len(recommendations_data)
        /\ Len(provisional) = Len(recommendations_data)
        /\ \A i \in DOMAIN recommendations_data :
              /\ filtered_decisions[i].recommendation =
                     _parse_recommendations(recommendations_data)[i]
              /\ filtered_decisions[i].issue_id = recommendations_data[i].issue_id
              /\ filtered_decisions[i].id = provisional[i].id

\* three different recommendations, the third of which the rate limit downgraded
C11_Witness ==
    /\ Returned
    /\ Len(recommendations_data) = 3
    /\ recommendations_data[1].issue_id # recommendations_data[2].issue_id
    /\ recommendations_data[2].issue_id # recommendations_data[3].issue_id
    /\ recommendations_data[1].issue_id # recommendations_data[3].issue_id
    /\ filtered_decisions[3].reasoning.rate_limited
    /\ filtered_decisions[3].issue_id = recommendations_data[3].issue_id

\* C12: process_ai_analysis hands no error to its caller.  Whatever the argument
\* (text that is no JSON, JSON that is no object, an unknown severity or action
\* type, a bad timestamp, a confidence that is no number on a recommendation whose
\* issue exists) the call ends with a list, and on each of these defects the list
\* is empty.
C12_DefectiveInputReturnsEmptyList ==
    LET defective ==
            \/ ai_response \in {"invalid_json", "not_an_object"}
            \/ \E k \in DOMAIN issues_data :
                  \/ issues_data[k].severity \notin {"low", "medium", "high", "critical"}
                  \/ /\ "timestamp" \in DOMAIN issues_data[k]
                     /\ issues_data[k].timestamp = "yesterday"
            \/ \E k \in DOMAIN recommendations_data :
                  \/ recommendations_data[k].action_type = "deploy_patch"
                  \/ /\ recommendations_data[k].confidence_score = NotANumber
                     /\ \E j \in DOMAIN issues_data :
                            issues_data[j].id = recommendations_data[k].issue_id
    IN  /\ phase \in {"idle", "returned", "failed"}
        /\ phase = "returned" => ~defective /\ ai_response = "object"
        /\ phase = "failed" => defective /\ filtered_decisions = <<>>

\* a payload whose second recommendation has a string for its confidence, after a
\* sound first one: the call returns the empty list
C12_Witness ==
    /\ phase = "failed"
    /\ ai_response = "object"
    /\ Len(recommendations_data) = 2
    /\ recommendations_data[1] = SoundRecommendation
    /\ recommendations_data[2].confidence_score = NotANumber
    /\ filtered_decisions = <<>>

\* C14: no two decisions of one engine share an identifier, two recommendations
\* for the same issue and two missing-issue escalations created at the same clock
\* reading included.
C14_UniqueIdentifiers ==
    \A i, j \in DOMAIN recent_decisions :
        i # j => recent_decisions[i].id # recent_decisions[j].id

\* C20: for every instant t, of all the decisions one engine has returned over its
\* sequential calls at most max_auto_deployments_per_hour are auto-resolve with a
\* creation timestamp in (t - 1 hour, t], also when the clock advances between the
\* evaluator and the arbiter.  (The count is largest at t = a decision's timestamp.)
C20_CapInEverySlidingHour ==
    LET returned_so_far == history_before \o filtered_decisions
    IN  \A k \in DOMAIN returned_so_far :
            LET t == returned_so_far[k].timestamp
            IN  Cardinality({j \in DOMAIN returned_so_far :
                                /\ AutoResolved(returned_so_far[j])
                                /\ t - Hour < returned_so_far[j].timestamp
                                /\ returned_so_far[j].timestamp <= t})
                    <= max_auto_deployments_per_hour

C17_OneInstantPerDecision ==
    phase = "evaluated" =>
        /\ TheDecision.id.stamp = TheDecision.timestamp
        /\ TheDecision.estimated_completion =
              TheDecision.timestamp +
                 (IF TheChecks.found THEN TheRecommendation.time_estimate
                                     ELSE EscalationHours * Hour)

\* C18: whatever the outcome, the reasoning of a decision for an existing issue
\* records the recommendation's confidence and the issue's severity.
C18_ReasoningRecordsConfidenceAndSeverity ==
    Evaluated =>
        /\ TheDecision.reasoning.confidence = TheRecommendation.confidence_score
        /\ TheDecision.reasoning.severity = TheIssue.severity

(***************************************************************************)
(* Claims about get_decision_summary (checked under SpecSummary).          *)
(***************************************************************************)
\* C16: for every decision list, the empty one included, the summary is a record
\* with the fields total_decisions, auto_approved, escalations, scheduled,
\* monitor_only and average_confidence; total_decisions is the length, auto_approved
\* the number of auto-approved decisions, escalations and scheduled the numbers of
\* escalate-human and schedule-maintenance outcomes, monitor_only the rest; every
\* field is zero for the empty list.
C16_SummaryRecord ==
    \A k \in DOMAIN summaries :
        LET summary == summaries[k]
            decisions == filtered_decisions
            Count(P(_)) == Cardinality({i \in DOMAIN decisions : P(decisions[i])})
            IsApproved(d) == d.auto_approved
            IsEscalation(d) == d.outcome = "escalate_human"
            IsScheduled(d) == d.outcome = "schedule_maintenance"
        IN  /\ {"total_decisions", "auto_approved", "escalations", "scheduled",
                "monitor_only", "average_confidence"} \subseteq DOMAIN summary
            /\ summary.total_decisions = Len(decisions)
            /\ summary.auto_approved = Count(IsApproved)
            /\ summary.escalations = Count(IsEscalation)
            /\ summary.scheduled = Count(IsScheduled)
            /\ summary.monitor_only =
                  Len(decisions) - Count(IsApproved) - Count(IsEscalation)
                                 - Count(IsScheduled)
            /\ decisions = <<>> =>
                  /\ summary.monitor_only = 0
                  /\ summary.average_confidence = 0

\* C30: the engine never produces the outcome monitor_only, so for every list a
\* call returned the summary's monitor_only field is 0.
C30_NeverMonitorOnly ==
    /\ \A i \in DOMAIN filtered_decisions :
          filtered_decisions[i].outcome
             \in {"auto_resolve", "schedule_maintenance", "escalate_human"}
    /\ \A k \in DOMAIN summaries :
          /\ "monitor_only" \in DOMAIN summaries[k]
          /\ summaries[k].monitor_only = 0

C13_ConcurrentCallsSerialize ==
    (\A th \in Threads : calls[th].pc = "done") =>
        /\ Cardinality({<<th, k>> \in Threads \X (1..MaxRecommendations) :
                           /\ k \in DOMAIN calls[th].filtered_decisions
                           /\ AutoResolved(calls[th].filtered_decisions[k])})
              <= max_auto_deployments_per_hour
        /\ \E a, b \in Threads :
              /\ a # b
              /\ LET one == _apply_business_rules(calls[a].decisions, <<>>, now)
                     two == _apply_business_rules(calls[b].decisions,
                                                  one.recent_decisions, now)
                 IN  /\ calls[a].filtered_decisions = one.filtered_decisions
                     /\ calls[b].filtered_decisions = two.filtered_decisions
                     /\ recent_decisions = two.recent_decisions

\* the number of places of a list that hold the decision
Occurrences(decision, list) ==
    Cardinality({k \in DOMAIN list : list[k] = decision})

\* C24: when two calls on one engine run concurrently, no update of the history is
\* lost: once both have returned, every decision either call returned is in the
\* history as often as the calls returned it, and the history holds nothing else.
\* (The history is empty before the two calls and nothing is old enough to prune.)
C24_NoHistoryUpdateLost ==
    (\A th \in Threads : calls[th].pc = "done") =>
        /\ Len(recent_decisions)
              = Len(calls["first"].filtered_decisions)
                  + Len(calls["second"].filtered_decisions)
        /\ \A th \in Threads :
              \A k \in DOMAIN calls[th].filtered_decisions :
                 LET decision == calls[th].filtered_decisions[k]
                 IN  Occurrences(decision, recent_decisions)
                       = Occurrences(decision, calls["first"].filtered_decisions)
                           + Occurrences(decision, calls["second"].filtered_decisions)

(***************************************************************************)
(* Claims about the arbiter's effect on decisions and history (Spec).      *)
(***************************************************************************)
\* C21: the arbiter changes a decision at most once and only by the rate-limit
\* downgrade: a downgraded decision differs from the evaluator's in outcome,
\* auto_approved and reasoning only; a decision that is not auto-approved
\* auto-resolve passes unchanged and takes nothing from the budget; no entry of
\* the history is modified by a later call.
C21_OnlyTheDowngradeChangesADecision ==
    Returned =>
        /\ \A i \in DOMAIN provisional :
              LET before == provisional[i]
                  after == filtered_decisions[i]
              IN  /\ after.id = before.id
                  /\ after.issue_id = before.issue_id
                  /\ after.recommendation = before.recommendation
                  /\ after.confidence = before.confidence
                  /\ after.timestamp = before.timestamp
                  /\ after.estimated_completion = before.estimated_completion
                  /\ after.reasoning.text = before.reasoning.text
                  /\ after.reasoning.confidence = before.reasoning.confidence
                  /\ after.reasoning.severity = before.reasoning.severity
                  /\ ~before.reasoning.rate_limited
                  /\ IF after = before
                     THEN TRUE
                     ELSE /\ AutoResolved(before)
                          /\ after.outcome = "schedule_maintenance"
                          /\ ~after.auto_approved
                          /\ after.reasoning.rate_limited
                  /\ ~AutoResolved(before) => after = before
        /\ Kept \subseteq Candidates
        /\ Cardinality(Kept) =
              Max(0, Min(Cardinality(Candidates),
                         max_auto_deployments_per_hour - SurvivingAutoApprovals))
        /\ \A k \in DOMAIN SurvivingHistory :
              \E j \in DOMAIN history_before : SurvivingHistory[k] = history_before[j]

\* a second call whose batch holds a decision passed unchanged and a downgraded
\* one, on a history whose entry survives
C21_Witness ==
    /\ Returned
    /\ Len(filtered_decisions) = 2
    /\ history_before # <<>>
    /\ SurvivingHistory = history_before
    /\ ~AutoResolved(provisional[1])
    /\ filtered_decisions[1] = provisional[1]
    /\ AutoResolved(provisional[2])
    /\ filtered_decisions[2].reasoning.rate_limited
    /\ filtered_decisions[2].confidence = provisional[2].confidence

\* C22: after a call evaluated at time T the history is the prior entries that
\* survived pruning, in their order, followed by every decision of the batch in
\* batch order, the downgraded ones with their downgraded outcome; so a
\* rate-limited decision is no auto-approval for a later call's count.
C22_HistoryIsSurvivorsThenBatch ==
    Returned =>
        LET T == cutoff_time + Hour
            survivors == SelectSeq(history_before, LAMBDA d : d.timestamp > T - Hour)
        IN  /\ recent_decisions = survivors \o filtered_decisions
            /\ \A k \in DOMAIN recent_decisions :
                  recent_decisions[k].reasoning.rate_limited =>
                      /\ recent_decisions[k].outcome = "schedule_maintenance"
                      /\ ~recent_decisions[k].auto_approved
                      /\ ~IsAutoApproval(recent_decisions[k])

\* a call that downgraded a decision, on a history of which one entry was pruned
\* and one survived
C22_Witness ==
    /\ Returned
    /\ Len(history_before) = 2
    /\ Len(SurvivingHistory) = 1
    /\ SurvivingHistory[1] = history_before[2]
    /\ \E i \in DOMAIN filtered_decisions : filtered_decisions[i].reasoning.rate_limited

\* C23: pruning removes only the entries older than one hour relative to the
\* evaluation time: an auto-approved auto-resolve entry whose timestamp is at most
\* one hour before it, exactly one hour included, is kept and counts toward the
\* recent count.
C23_OneHourOldEntryIsKept ==
    Returned =>
        LET T == cutoff_time + Hour
            at_most_one_hour_old ==
                {k \in DOMAIN history_before : history_before[k].timestamp >= T - Hour}
        IN  /\ Len(SurvivingHistory) = Cardinality(at_most_one_hour_old)
            /\ SurvivingAutoApprovals =
                  Cardinality({k \in at_most_one_hour_old :
                                  AutoResolved(history_before[k])})

\* C25: in every decision the engine creates, returns or keeps in its history,
\* auto_approved is true iff the outcome is auto-resolve: after the evaluator,
\* after a rate-limit downgrade and for missing-issue escalations.
C25_ApprovedIffAutoResolve ==
    \A decisions \in {provisional, filtered_decisions, recent_decisions, history_before} :
        \A k \in DOMAIN decisions :
            decisions[k].auto_approved = (decisions[k].outcome = "auto_resolve")

\* one returned list with a decision left auto-resolve, a downgraded one and a
\* missing-issue escalation
C25_Witness ==
    /\ Returned
    /\ \E i, j, k \in DOMAIN filtered_decisions :
          /\ AutoResolved(filtered_decisions[i])
          /\ filtered_decisions[j].reasoning.rate_limited
          /\ filtered_decisions[j].outcome = "schedule_maintenance"
          /\ ~checks[k].found
          /\ filtered_decisions[k].outcome = "escalate_human"

\* C27: a call that fails returns the empty list and leaves the history exactly
\* as it was before the call: no decision of the batch, not even for its valid
\* recommendations, is returned or recorded.
C27_FailedCallLeavesHistory ==
    phase = "failed" =>
        /\ filtered_decisions = <<>>
        /\ provisional = <<>>
        /\ recent_decisions = history_before

\* on an engine with a history, a batch of a sound recommendation followed by
\* one with an unknown action type
C27_Witness ==
    /\ phase = "failed"
    /\ history_before # <<>>
    /\ recent_decisions = history_before
    /\ Len(recommendations_data) = 2
    /\ recommendations_data[1] = SoundRecommendation
    /\ recommendations_data[2].action_type = "deploy_patch"
    /\ filtered_decisions = <<>>

\* C29: with a cap of at least 1, a call made more than one hour after the
\* timestamps of all auto-resolved decisions recorded before returns the first
\* recommendation of its batch that passes all four gates as auto-resolve,
\* whatever else the history holds.
C29_BudgetComesBack ==
    (/\ Returned
     /\ max_auto_deployments_per_hour >= 1
     /\ \A k \in DOMAIN history_before :
           AutoResolved(history_before[k]) =>
               history_before[k].timestamp < cutoff_time)
    => LET passing == {i \in DOMAIN checks :
                          /\ checks[i].found
                          /\ checks[i].confidence_check
                          /\ checks[i].severity_check
                          /\ checks[i].business_impact_check
                          /\ checks[i].technical_check}
       IN  \A i \in passing :
               (\A j \in passing : i <= j) => AutoResolved(filtered_decisions[i])

\* the cap used up by a decision 61 minutes old; the batch's first
\* recommendation fails a gate, its second passes and is auto-resolved
C29_Witness ==
    /\ Returned
    /\ max_auto_deployments_per_hour = 1
    /\ Len(history_before) = 1
    /\ AutoResolved(history_before[1])
    /\ history_before[1].timestamp < cutoff_time
    /\ Len(filtered_decisions) = 2
    /\ ~AutoResolved(provisional[1])
    /\ AutoResolved(filtered_decisions[2])

\* C26: in the list a call returns, the decision for a critical issue is never
\* schedule-maintenance: it is auto-resolve or escalate-human, also when the rate
\* limit is exhausted.
C26_CriticalNeverScheduled ==
    Returned =>
        \A i \in DOMAIN filtered_decisions :
            (/\ checks[i].found
             /\ _parse_issues(issues_data)[filtered_decisions[i].issue_id].severity
                   = "critical")
            => filtered_decisions[i].outcome \in {"auto_resolve", "escalate_human"}

\* C26, amended: the evaluator never schedules a critical issue (it auto-resolves
\* or escalates), and the returned decision for a critical issue is
\* schedule-maintenance exactly when the evaluator auto-resolved it and the rate
\* limit downgraded it.
C26_CriticalScheduledOnlyByRateLimit ==
    Returned =>
        \A i \in DOMAIN filtered_decisions :
            (/\ checks[i].found
             /\ _parse_issues(issues_data)[filtered_decisions[i].issue_id].severity
                   = "critical")
            => /\ provisional[i].outcome \in {"auto_resolve", "escalate_human"}
               /\ (filtered_decisions[i].outcome = "schedule_maintenance")
                     = (/\ AutoResolved(provisional[i])
                        /\ filtered_decisions[i].reasoning.rate_limited)
               /\ filtered_decisions[i].outcome = "schedule_maintenance" =>
                     SurvivingAutoApprovals + Cardinality({j \in Kept : j < i})
                        >= max_auto_deployments_per_hour
               /\ provisional[i].outcome = "escalate_human" =>
                     filtered_decisions[i] = provisional[i]

\* under a cap of 1: a restart at 0.95 for the critical issue is scheduled by the
\* rate limit after an earlier auto-resolve decision of the same batch
C26_Witness ==
    /\ Returned
    /\ max_auto_deployments_per_hour = 1
    /\ Len(filtered_decisions) = 2
    /\ AutoResolved(filtered_decisions[1])
    /\ recommendations_data[2].issue_id = "issue_003"
    /\ recommendations_data[2].confidence_score = 95
    /\ AutoResolved(provisional[2])
    /\ filtered_decisions[2].outcome = "schedule_maintenance"

\* escalate-human < schedule-maintenance < auto-resolve
Rank(outcome) ==
    IF outcome = "escalate_human" THEN 0
    ELSE IF outcome = "schedule_maintenance" THEN 1
    ELSE 2

\* the outcome of the evaluator for the drawn issue, action, configuration and
\* hour when the recommendation's confidence is c
OutcomeAt(c) ==
    LET recommendation == _parse_recommendations(recommendations_data)[1]
        t == IF TheChecks.current_hour = NoValue THEN now
             ELSE TheChecks.current_hour * Hour
    IN  _make_decision([recommendation EXCEPT !.confidence_score = c],
                       _parse_issues(issues_data), t, now, now, now).outcome

\* C28: for a fixed issue, action, configuration and hour the evaluator is
\* monotone in the confidence: a higher confidence score never gives a lower
\* outcome in the order escalate-human < schedule-maintenance < auto-resolve.
C28_MonotoneInConfidence ==
    Evaluated =>
        \A c \in EvalConfidences :
            /\ c >= TheRecommendation.confidence_score =>
                  Rank(OutcomeAt(c)) >= Rank(TheDecision.outcome)
            /\ c <= TheRecommendation.confidence_score =>
                  Rank(OutcomeAt(c)) <= Rank(TheDecision.outcome)

\* a high-severity issue escalated at 0.59 that is scheduled at 0.60 and
\* auto-resolved at 0.95
C28_Witness ==
    /\ Evaluated
    /\ TheIssue.severity = "high"
    /\ TheRecommendation.confidence_score = 59
    /\ TheDecision.outcome = "escalate_human"
    /\ OutcomeAt(60) = "schedule_maintenance"
    /\ OutcomeAt(95) = "auto_resolve"

====
